---- MODULE Spec2Model ----
(***************************************************************************)
(* Model of plugins/oplog/oplog_events.py: the pydantic snapshot models    *)
(* (FuncModel, OpModel, InsnModel, SegmentModel, RangeModel, UdmModel,     *)
(* EdmModel), their converters and validators, the event classes and the   *)
(* idb_event union; and of plugins/tag_func.py: dirtree_mkdirs and main.   *)
(*                                                                         *)
(* Python values are represented as follows:                               *)
(*   int, bool, str      TLA+ integers, booleans, strings                  *)
(*   None / a str s      << >> / <<s>>     (for `str | None` fields)       *)
(*   list                a sequence (1-based; Python index i is i+1)       *)
(*   host C array        a function on 0..n-1                              *)
(*   Any payload         a tagged tuple <<"none">>, <<"int", n>>, ...      *)
(*   model instance      [cls |-> class name, f |-> field name -> value]   *)
(***************************************************************************)
EXTENDS Integers, Sequences, FiniteSets, TLC

VARIABLES
  obj,    \* the model instance the caller holds (a snapshot or an event)
  err,    \* the error details of the last call (<< >> when it succeeded)
  last,   \* the last call: its operation and its arguments
  wire,   \* the serialized form of an event (model_dump), or NoValue
  back,   \* the result of validating `wire` as an idb_event, or NoValue
  hist,   \* an earlier call remembered with its outcome, or NoValue
  defined,\* the event classes the module defined when it was imported
  host,   \* the host structure a hook was handed: [type, at], type "none" if none
  tree,   \* the function dirtree: its entries in the order the host lists them
  run     \* the last run of tag_func with the dirtree calls it made, or NoValue

vars == <<obj, err, last, wire, back, hist, defined, host, tree, run>>

None == << >>

Some(s) == <<s>>

NoValue == [cls |-> "NoValue"]

\* the number of operand slots of insn_t copied by from_insn_t
NumOps == 8

\* the number of default segment register slots of segment_t
DefsrLen == 16

\* upper limit accepted by validate_align/comb/perm/type
U8Max == 255

\* upper limit accepted by validate_flags
U16Max == 65535

Instance(c, fields) == [cls |-> c, f |-> fields]

(***************************************************************************)
(* pydantic: outcome of one field validator, and the error detail that     *)
(* ValidationError.errors() carries for a validator that raised ValueError *)
(***************************************************************************)
Accept(v) == [ok |-> TRUE, v |-> v]

RaiseValueError(m) == [ok |-> FALSE, msg |-> m]

ErrorDetail(field, r, v) ==
  [type |-> "value_error", loc |-> field, msg |-> r.msg, input |-> v]

(***************************************************************************)
(* SegmentModel: field validators                                          *)
(***************************************************************************)
validate_bitness_wide(v) ==
  IF v \notin {0, 1, 2, 3}
    THEN RaiseValueError(<<"bitness must be 0 (16bit), 1 (32bit), or 2 (64bit)">>)
    ELSE Accept(v)

\* a validator that keeps rejecting once an earlier call has failed
validate_bitness_sticky(v) ==
  IF v \notin {0, 1, 2} \/ (hist # NoValue /\ hist.failed)
    THEN RaiseValueError(<<"bitness must be 0 (16bit), 1 (32bit), or 2 (64bit)">>)
    ELSE Accept(v)

validate_bitness(v) ==
  IF v \notin {0, 1, 2}
    THEN RaiseValueError(<<"bitness must be 0 (16bit), 1 (32bit), or 2 (64bit)">>)
    ELSE Accept(v)

validate_defsr_length(v) ==
  IF Len(v) # DefsrLen
    THEN RaiseValueError(<<"defsr must have exactly 16 elements, got", Len(v)>>)
    ELSE Accept(v)

\* a validator that clamps instead of raising
validate_align_clamp(v) ==
  IF ~(0 <= v /\ v <= U8Max)
    THEN Accept(IF v < 0 THEN 0 ELSE U8Max)
    ELSE Accept(v)

validate_align(v) ==
  IF ~(0 <= v /\ v <= U8Max)
    THEN RaiseValueError(<<"align must be in range 0-255, got", v>>)
    ELSE Accept(v)

validate_comb(v) ==
  IF ~(0 <= v /\ v <= U8Max)
    THEN RaiseValueError(<<"comb must be in range 0-255, got", v>>)
    ELSE Accept(v)

validate_perm(v) ==
  IF ~(0 <= v /\ v <= U8Max)
    THEN RaiseValueError(<<"perm must be in range 0-255, got", v>>)
    ELSE Accept(v)

validate_type(v) ==
  IF ~(0 <= v /\ v <= U8Max)
    THEN RaiseValueError(<<"type must be in range 0-255, got", v>>)
    ELSE Accept(v)

validate_flags(v) ==
  IF ~(0 <= v /\ v <= U16Max)
    THEN RaiseValueError(<<"flags must be in range 0-65535, got", v>>)
    ELSE Accept(v)

\* the fields of SegmentModel in declaration order
SegmentModel_fields ==
  <<"start_ea", "end_ea", "name", "sclass", "orgbase", "align", "comb", "perm",
    "bitness", "flags", "sel", "defsr", "type", "color", "segment_name",
    "segment_class">>

\* the fields a @field_validator is attached to
SegmentModel_validated ==
  {"bitness", "defsr", "align", "comb", "perm", "type", "flags"}

SegmentModel_validator(field, v) ==
  CASE field = "bitness" -> validate_bitness(v)
    [] field = "defsr" -> validate_defsr_length(v)
    [] field = "align" -> validate_align(v)
    [] field = "comb" -> validate_comb(v)
    [] field = "perm" -> validate_perm(v)
    [] field = "type" -> validate_type(v)
    [] field = "flags" -> validate_flags(v)
    [] OTHER -> Accept(v)

(***************************************************************************)
(* SegmentModel construction: every field is validated in declaration     *)
(* order, all errors are collected; an instance exists only without any.   *)
(***************************************************************************)
RECURSIVE SegmentModel_errors(_, _)
SegmentModel_errors(kw, i) ==
  IF i > Len(SegmentModel_fields)
    THEN << >>
    ELSE LET n == SegmentModel_fields[i]
             r == SegmentModel_validator(n, kw[n])
         IN  (IF r.ok THEN << >> ELSE <<ErrorDetail(n, r, kw[n])>>)
               \o SegmentModel_errors(kw, i + 1)

SegmentModel_new(kw) ==
  LET errors == SegmentModel_errors(kw, 1)
  IN  IF errors # << >>
        THEN [ok |-> FALSE, errors |-> errors, value |-> NoValue]
        ELSE [ok |-> TRUE, errors |-> << >>,
              value |-> Instance("SegmentModel",
                [n \in DOMAIN kw |-> SegmentModel_validator(n, kw[n]).v])]

(***************************************************************************)
(* Inputs of direct SegmentModel construction: every combination of the    *)
(* boundary values of the validated fields.                                *)
(***************************************************************************)
BitnessSamples == {-1, 0, 1, 2, 3}

U8Samples == {-1, 0, U8Max, U8Max + 1}

U16Samples == {-1, 0, 8, U16Max, U16Max + 1}

DefsrLens == {DefsrLen - 1, DefsrLen, DefsrLen + 1}

Zeros(n) == [i \in 1..n |-> 0]

SegmentKwargs(b, al, co, pe, ty, fl, dl, sn) ==
  [start_ea |-> 4198400, end_ea |-> 4202496, name |-> 1, sclass |-> 2,
   orgbase |-> 0, align |-> al, comb |-> co, perm |-> pe, bitness |-> b,
   flags |-> fl, sel |-> 1, defsr |-> Zeros(dl), type |-> ty, color |-> 0,
   segment_name |-> sn, segment_class |-> None]

Ok(v) == [ok |-> TRUE, errors |-> << >>, value |-> v]

\* the call raised: a pydantic ValidationError or a Python exception
Failed(errors) == [ok |-> FALSE, errors |-> errors, value |-> NoValue]

\* a Python exception raised while reading the host structure
Raised(type, attr) == Failed(<<[type |-> type, loc |-> attr]>>)

\* Python truth value of a host reference (None is false, an object is true)
Truthy(x) == x # NoValue

(***************************************************************************)
(* SegmentModel.from_segment_t                                             *)
(***************************************************************************)
\* a converter that defaults an unresolved name to the empty string
from_segment_t_default(segment) ==
  IF segment = NoValue
    THEN Raised("AttributeError", "defsr")
    ELSE LET defsr_list == [i \in 1..DefsrLen |-> segment.defsr[i - 1]]
             nm == IF Truthy(segment) THEN segment.get_segm_name ELSE None
         IN  SegmentModel_new(
               [start_ea |-> segment.start_ea, end_ea |-> segment.end_ea,
                name |-> segment.name, sclass |-> segment.sclass,
                orgbase |-> segment.orgbase, align |-> segment.align,
                comb |-> segment.comb, perm |-> segment.perm,
                bitness |-> segment.bitness, flags |-> segment.flags,
                sel |-> segment.sel, defsr |-> defsr_list,
                type |-> segment.type, color |-> segment.color,
                segment_name |-> IF nm = None THEN Some("") ELSE nm,
                segment_class |->
                  IF Truthy(segment) THEN segment.get_segm_class ELSE None])

from_segment_t(segment) ==
  IF segment = NoValue
    THEN Raised("AttributeError", "defsr")
    ELSE LET defsr_list == [i \in 1..DefsrLen |-> segment.defsr[i - 1]]
         IN  SegmentModel_new(
               [start_ea |-> segment.start_ea, end_ea |-> segment.end_ea,
                name |-> segment.name, sclass |-> segment.sclass,
                orgbase |-> segment.orgbase, align |-> segment.align,
                comb |-> segment.comb, perm |-> segment.perm,
                bitness |-> segment.bitness, flags |-> segment.flags,
                sel |-> segment.sel, defsr |-> defsr_list,
                type |-> segment.type, color |-> segment.color,
                segment_name |->
                  IF Truthy(segment) THEN segment.get_segm_name ELSE None,
                segment_class |->
                  IF Truthy(segment) THEN segment.get_segm_class ELSE None])

(***************************************************************************)
(* FuncModel                                                               *)
(***************************************************************************)
FuncModel_fields ==
  <<"start_ea", "end_ea", "flags", "frame", "frsize", "frregs", "argsize",
    "fpd", "color", "pntqty", "regvarqty", "regargqty", "tailqty", "owner",
    "refqty", "name">>

\* FuncModel declares no validator: int and `str | None` values are stored
FuncModel_new(kw) == Ok(Instance("FuncModel", kw))

\* a converter that reads the name only the first time a structure is converted
from_func_t_once(func) ==
  FuncModel_new(
    [start_ea |-> func.start_ea, end_ea |-> func.end_ea, flags |-> func.flags,
     frame |-> func.frame, frsize |-> func.frsize, frregs |-> func.frregs,
     argsize |-> func.argsize, fpd |-> func.fpd, color |-> func.color,
     pntqty |-> func.pntqty, regvarqty |-> func.regvarqty,
     regargqty |-> func.regargqty, tailqty |-> func.tailqty,
     owner |-> func.owner, refqty |-> func.refqty,
     name |-> IF func.has_get_name /\ hist = NoValue THEN func.get_name ELSE None])

from_func_t(func) ==
  FuncModel_new(
    [start_ea |-> func.start_ea, end_ea |-> func.end_ea, flags |-> func.flags,
     frame |-> func.frame, frsize |-> func.frsize, frregs |-> func.frregs,
     argsize |-> func.argsize, fpd |-> func.fpd, color |-> func.color,
     pntqty |-> func.pntqty, regvarqty |-> func.regvarqty,
     regargqty |-> func.regargqty, tailqty |-> func.tailqty,
     owner |-> func.owner, refqty |-> func.refqty,
     name |-> IF func.has_get_name THEN func.get_name ELSE None])

(***************************************************************************)
(* OpModel and InsnModel                                                   *)
(***************************************************************************)
OpModel_fields ==
  <<"n", "type", "offb", "offo", "flags", "dtype", "reg", "phrase", "value",
    "addr", "specval", "specflag1", "specflag2", "specflag3", "specflag4">>

OpModel_new(kw) == Ok(Instance("OpModel", kw))

from_op_t(op) ==
  OpModel_new(
    [n |-> op.n, type |-> op.type, offb |-> op.offb, offo |-> op.offo,
     flags |-> op.flags, dtype |-> op.dtype, reg |-> op.reg,
     phrase |-> op.phrase, value |-> op.value, addr |-> op.addr,
     specval |-> op.specval, specflag1 |-> op.specflag1,
     specflag2 |-> op.specflag2, specflag3 |-> op.specflag3,
     specflag4 |-> op.specflag4])

InsnModel_fields ==
  <<"cs", "ip", "ea", "itype", "size", "auxpref", "auxpref_u16", "auxpref_u8",
    "segpref", "insnpref", "flags", "ops">>

\* InsnModel declares no validator: `ops: list[OpModel]` of any length is stored
InsnModel_new(kw) == Ok(Instance("InsnModel", kw))

\* list(a) of a host array of n elements
ListOf(a, n) == [i \in 1..n |-> a[i - 1]]

\* a converter that keeps only the operand slots in use (type # o_void)
from_insn_t_used(insn) ==
  LET all == [i \in 1..NumOps |-> from_op_t(insn.ops[i - 1]).value]
      used == Cardinality({i \in 1..NumOps : insn.ops[i - 1].type # 0})
  IN  InsnModel_new(
        [cs |-> insn.cs, ip |-> insn.ip, ea |-> insn.ea, itype |-> insn.itype,
         size |-> insn.size, auxpref |-> insn.auxpref,
         auxpref_u16 |-> ListOf(insn.auxpref_u16, 2),
         auxpref_u8 |-> ListOf(insn.auxpref_u8, 4),
         segpref |-> insn.segpref, insnpref |-> insn.insnpref,
         flags |-> insn.flags, ops |-> SubSeq(all, 1, used)])

from_insn_t(insn) ==
  InsnModel_new(
    [cs |-> insn.cs, ip |-> insn.ip, ea |-> insn.ea, itype |-> insn.itype,
     size |-> insn.size, auxpref |-> insn.auxpref,
     auxpref_u16 |-> ListOf(insn.auxpref_u16, 2),
     auxpref_u8 |-> ListOf(insn.auxpref_u8, 4),
     segpref |-> insn.segpref, insnpref |-> insn.insnpref,
     flags |-> insn.flags,
     ops |-> [i \in 1..NumOps |-> from_op_t(insn.ops[i - 1]).value]])

(***************************************************************************)
(* RangeModel, UdmModel, EdmModel                                          *)
(***************************************************************************)
RangeModel_new(kw) == Ok(Instance("RangeModel", kw))

from_range_t(range_obj) ==
  RangeModel_new([start_ea |-> range_obj.start_ea, end_ea |-> range_obj.end_ea])

UdmModel_fields ==
  <<"offset", "size", "name", "cmt", "tid", "repr", "effalign", "tafld_bits",
    "fda">>

UdmModel_new(kw) == Ok(Instance("UdmModel", kw))

\* udm.type.get_tid() raises when the member has no usable type handle
from_udm_t(udm) ==
  IF udm.type = None
    THEN Raised("AttributeError", "type")
    ELSE UdmModel_new(
           [offset |-> udm.offset, size |-> udm.size, name |-> udm.name,
            cmt |-> udm.cmt, tid |-> udm.type[1].tid, repr |-> udm.repr.str,
            effalign |-> udm.effalign, tafld_bits |-> udm.tafld_bits,
            fda |-> udm.fda])

EdmModel_fields == <<"name", "comment", "value", "tid">>

EdmModel_new(kw) == Ok(Instance("EdmModel", kw))

from_edm_t(edm) ==
  LET name == edm.name
      comment == edm.cmt
      value == edm.value
      tid == edm.tid
  IN  EdmModel_new([name |-> name, comment |-> comment, value |-> value,
                    tid |-> tid])

(***************************************************************************)
(* Host structures handed to the converters                                *)
(***************************************************************************)
HostSegment(b, fl, nm, cl) ==
  [start_ea |-> 4198400, end_ea |-> 4202496, name |-> 1, sclass |-> 2,
   orgbase |-> 0, align |-> 16, comb |-> 1, perm |-> 7, bitness |-> b,
   flags |-> fl, sel |-> 1, defsr |-> [i \in 0..(DefsrLen - 1) |-> IF i = 3 THEN 5 ELSE 0],
   type |-> 2, color |-> 0, get_segm_name |-> nm, get_segm_class |-> cl]

HostSegments ==
  {HostSegment(b, 8, nm, cl) :
     b \in {2, 3}, nm \in {None, Some(""), Some(".text")},
     cl \in {None, Some("CODE")}}

HostFunc(ea, has, nm) ==
  [start_ea |-> ea, end_ea |-> ea + 64, flags |-> 4096, frame |-> 7,
   frsize |-> 32, frregs |-> 8, argsize |-> 16, fpd |-> 0, color |-> 0,
   pntqty |-> 1, regvarqty |-> 0, regargqty |-> 2, tailqty |-> 0, owner |-> ea,
   refqty |-> 1, has_get_name |-> has, get_name |-> nm]

HostFuncs ==
  {HostFunc(4198400, FALSE, None)}
    \cup {HostFunc(4198400, TRUE, nm) : nm \in {None, Some(""), Some("main")}}

\* operand slot i of a host instruction with `used` operands: the host keeps
\* op.n equal to the slot number; a slot not in use has type o_void (0)
HostOp(i, used) ==
  [n |-> i, type |-> IF i < used THEN 1 ELSE 0, offb |-> 0, offo |-> 0,
   flags |-> IF i < used THEN 8 ELSE 0, dtype |-> IF i < used THEN 2 ELSE 0,
   reg |-> IF i < used THEN i + 1 ELSE 0, phrase |-> 0, value |-> 0,
   addr |-> 0, specval |-> 0, specflag1 |-> 0, specflag2 |-> 0,
   specflag3 |-> 0, specflag4 |-> 0]

HostInsn(used) ==
  [cs |-> 0, ip |-> 4202512, ea |-> 4202512, itype |-> 122, size |-> 2,
   auxpref |-> 6152, auxpref_u16 |-> [i \in 0..1 |-> IF i = 0 THEN 6152 ELSE 0],
   auxpref_u8 |-> [i \in 0..3 |-> IF i = 0 THEN 8 ELSE IF i = 1 THEN 24 ELSE 0],
   segpref |-> 0, insnpref |-> 0, flags |-> 0,
   ops |-> [i \in 0..(NumOps - 1) |-> HostOp(i, used)]]

HostInsns == {HostInsn(used) : used \in {0, 2, NumOps}}

HostRanges == {[start_ea |-> 4198400, end_ea |-> 4198416]}

HostUdm(ty, nm) ==
  [offset |-> 64, size |-> 32, name |-> nm, cmt |-> "", type |-> ty,
   repr |-> [str |-> "hex"], effalign |-> 4, tafld_bits |-> 0, fda |-> 0]

HostUdms ==
  {HostUdm(ty, nm) : ty \in {None, Some([tid |-> 77])}, nm \in {"field_8", ""}}

HostEdms ==
  {[name |-> nm, cmt |-> "", value |-> 3, tid |-> 91] : nm \in {"RED", ""}}

(***************************************************************************)
(* The event classes in definition order.  Every class declares            *)
(*   event_name: Literal[tag]   and   timestamp: datetime                  *)
(* followed by its payload annotations.  `lead` is the first character of  *)
(* the annotated name: pydantic makes an annotation whose name starts with *)
(* an underscore a private attribute, not a field of the model.            *)
(***************************************************************************)
A(n, l, t) == [name |-> n, lead |-> l, type |-> t]

\* a class whose tag literal repeats the class name, suffix included
EventClass_suffixed(cls, tag, payload) ==
  [cls |-> cls, tag |-> cls,
   ann |-> <<A("event_name", "e", "Literal"), A("timestamp", "t", "datetime")>>
             \o payload]

EventClass(cls, tag, payload) ==
  [cls |-> cls, tag |-> tag,
   ann |-> <<A("event_name", "e", "Literal"), A("timestamp", "t", "datetime")>>
             \o payload]

EventClasses ==
  <<
    EventClass("adding_segm_event", "adding_segm",
      << A("s", "s", "SegmentModel") >>),
    EventClass("segm_added_event", "segm_added",
      << A("s", "s", "SegmentModel") >>),
    EventClass("deleting_segm_event", "deleting_segm",
      << A("start_ea", "s", "int") >>),
    EventClass("segm_deleted_event", "segm_deleted",
      << A("start_ea", "s", "int"), A("end_ea", "e", "int"), A("flags", "f", "int") >>),
    EventClass("changing_segm_start_event", "changing_segm_start",
      << A("s", "s", "SegmentModel"), A("new_start", "n", "int"), A("segmod_flags", "s", "int") >>),
    EventClass("segm_start_changed_event", "segm_start_changed",
      << A("s", "s", "SegmentModel"), A("oldstart", "o", "int") >>),
    EventClass("changing_segm_end_event", "changing_segm_end",
      << A("s", "s", "SegmentModel"), A("new_end", "n", "int"), A("segmod_flags", "s", "int") >>),
    EventClass("segm_end_changed_event", "segm_end_changed",
      << A("s", "s", "SegmentModel"), A("oldend", "o", "int") >>),
    EventClass("changing_segm_name_event", "changing_segm_name",
      << A("s", "s", "SegmentModel"), A("oldname", "o", "str") >>),
    EventClass("segm_name_changed_event", "segm_name_changed",
      << A("s", "s", "SegmentModel"), A("name", "n", "str") >>),
    EventClass("changing_segm_class_event", "changing_segm_class",
      << A("s", "s", "SegmentModel") >>),
    EventClass("segm_class_changed_event", "segm_class_changed",
      << A("s", "s", "SegmentModel"), A("sclass", "s", "str") >>),
    EventClass("segm_attrs_updated_event", "segm_attrs_updated",
      << A("s", "s", "SegmentModel") >>),
    EventClass("segm_moved_event", "segm_moved",
      << A("_from", "_", "int"), A("to", "t", "int"),
         A("size", "s", "int"), A("changed_netmap", "c", "bool") >>),
    EventClass("allsegs_moved_event", "allsegs_moved",
      << A("info", "i", "Any") >>),
    EventClass("func_added_event", "func_added",
      << A("pfn", "p", "FuncModel") >>),
    EventClass("func_updated_event", "func_updated",
      << A("pfn", "p", "FuncModel") >>),
    EventClass("set_func_start_event", "set_func_start",
      << A("pfn", "p", "FuncModel"), A("new_start", "n", "int") >>),
    EventClass("set_func_end_event", "set_func_end",
      << A("pfn", "p", "FuncModel"), A("new_end", "n", "int") >>),
    EventClass("deleting_func_event", "deleting_func",
      << A("pfn", "p", "FuncModel") >>),
    EventClass("func_deleted_event", "func_deleted",
      << A("func_ea", "f", "int") >>),
    EventClass("thunk_func_created_event", "thunk_func_created",
      << A("pfn", "p", "FuncModel") >>),
    EventClass("func_tail_appended_event", "func_tail_appended",
      << A("pfn", "p", "FuncModel"), A("tail", "t", "FuncModel") >>),
    EventClass("deleting_func_tail_event", "deleting_func_tail",
      << A("pfn", "p", "FuncModel"), A("tail", "t", "RangeModel") >>),
    EventClass("func_tail_deleted_event", "func_tail_deleted",
      << A("pfn", "p", "FuncModel"), A("tail_ea", "t", "int") >>),
    EventClass("tail_owner_changed_event", "tail_owner_changed",
      << A("tail", "t", "FuncModel"), A("owner_func", "o", "int"), A("old_owner", "o", "int") >>),
    EventClass("func_noret_changed_event", "func_noret_changed",
      << A("pfn", "p", "FuncModel") >>),
    EventClass("updating_tryblks_event", "updating_tryblks",
      << A("tbv", "t", "Any") >>),
    EventClass("tryblks_updated_event", "tryblks_updated",
      << A("tbv", "t", "Any") >>),
    EventClass("deleting_tryblks_event", "deleting_tryblks",
      << A("range", "r", "RangeModel") >>),
    EventClass("changing_cmt_event", "changing_cmt",
      << A("ea", "e", "int"), A("repeatable_cmt", "r", "bool"), A("newcmt", "n", "str") >>),
    EventClass("cmt_changed_event", "cmt_changed",
      << A("ea", "e", "int"), A("repeatable_cmt", "r", "bool") >>),
    EventClass("changing_range_cmt_event", "changing_range_cmt",
      << A("kind", "k", "Any"), A("a", "a", "RangeModel"),
         A("cmt", "c", "str"), A("repeatable", "r", "bool") >>),
    EventClass("range_cmt_changed_event", "range_cmt_changed",
      << A("kind", "k", "Any"), A("a", "a", "RangeModel"),
         A("cmt", "c", "str"), A("repeatable", "r", "bool") >>),
    EventClass("extra_cmt_changed_event", "extra_cmt_changed",
      << A("ea", "e", "int"), A("line_idx", "l", "int"), A("cmt", "c", "str") >>),
    EventClass("sgr_changed_event", "sgr_changed",
      << A("start_ea", "s", "int"), A("end_ea", "e", "int"), A("regnum", "r", "int"),
         A("value", "v", "Any"), A("old_value", "o", "Any"), A("tag", "t", "int") >>),
    EventClass("sgr_deleted_event", "sgr_deleted",
      << A("start_ea", "s", "int"), A("end_ea", "e", "int"), A("regnum", "r", "int") >>),
    EventClass("make_code_event", "make_code",
      << A("insn", "i", "InsnModel") >>),
    EventClass("make_data_event", "make_data",
      << A("ea", "e", "int"), A("flags", "f", "int"), A("tid", "t", "int"), A("len", "l", "int") >>),
    EventClass("destroyed_items_event", "destroyed_items",
      << A("ea1", "e", "int"), A("ea2", "e", "int"), A("will_disable_range", "w", "bool") >>),
    EventClass("renamed_event", "renamed",
      << A("ea", "e", "int"), A("new_name", "n", "str"),
         A("local_name", "l", "bool"), A("old_name", "o", "str") >>),
    EventClass("byte_patched_event", "byte_patched",
      << A("ea", "e", "int"), A("old_value", "o", "int") >>),
    EventClass("item_color_changed_event", "item_color_changed",
      << A("ea", "e", "int"), A("color", "c", "Any") >>),
    EventClass("callee_addr_changed_event", "callee_addr_changed",
      << A("ea", "e", "int"), A("callee", "c", "int") >>),
    EventClass("bookmark_changed_event", "bookmark_changed",
      << A("index", "i", "int"), A("ea", "e", "int"),
         A("desc", "d", "str"), A("operation", "o", "int") >>),
    EventClass("changing_op_type_event", "changing_op_type",
      << A("ea", "e", "int"), A("n", "n", "int"), A("opinfo", "o", "Any") >>),
    EventClass("op_type_changed_event", "op_type_changed",
      << A("ea", "e", "int"), A("n", "n", "int") >>),
    EventClass("dirtree_mkdir_event", "dirtree_mkdir",
      << A("path", "p", "str") >>),
    EventClass("dirtree_rmdir_event", "dirtree_rmdir",
      << A("path", "p", "str") >>),
    EventClass("dirtree_link_event", "dirtree_link",
      << A("path", "p", "str"), A("link", "l", "bool") >>),
    EventClass("dirtree_move_event", "dirtree_move",
      << A("_from", "_", "str"), A("to", "t", "str") >>),
    EventClass("dirtree_rank_event", "dirtree_rank",
      << A("path", "p", "str"), A("rank", "r", "int") >>),
    EventClass("dirtree_rminode_event", "dirtree_rminode",
      << A("inode", "i", "int") >>),
    EventClass("dirtree_segm_moved_event", "dirtree_segm_moved",
      <<  >>),
    EventClass("changing_ti_event", "changing_ti",
      << A("ea", "e", "int"), A("new_type", "n", "Any"), A("new_fnames", "n", "Any") >>),
    EventClass("ti_changed_event", "ti_changed",
      << A("ea", "e", "int"), A("type", "t", "Any"), A("fnames", "f", "Any") >>),
    EventClass("changing_op_ti_event", "changing_op_ti",
      << A("ea", "e", "int"), A("n", "n", "int"),
         A("new_type", "n", "Any"), A("new_fnames", "n", "Any") >>),
    EventClass("op_ti_changed_event", "op_ti_changed",
      << A("ea", "e", "int"), A("n", "n", "int"), A("type", "t", "Any"), A("fnames", "f", "Any") >>),
    EventClass("local_types_changed_event", "local_types_changed",
      << A("ltc", "l", "Any"), A("ordinal", "o", "int"), A("name", "n", "str") >>),
    EventClass("lt_udm_created_event", "lt_udm_created",
      << A("udtname", "u", "str"), A("udm", "u", "UdmModel") >>),
    EventClass("lt_udm_deleted_event", "lt_udm_deleted",
      << A("udtname", "u", "str"), A("udm_tid", "u", "int"), A("udm", "u", "UdmModel") >>),
    EventClass("lt_udm_renamed_event", "lt_udm_renamed",
      << A("udtname", "u", "str"), A("udm", "u", "UdmModel"), A("oldname", "o", "str") >>),
    EventClass("lt_udm_changed_event", "lt_udm_changed",
      << A("udtname", "u", "str"), A("udm_tid", "u", "int"),
         A("udmold", "u", "UdmModel"), A("udmnew", "u", "UdmModel") >>),
    EventClass("lt_udt_expanded_event", "lt_udt_expanded",
      << A("udtname", "u", "str"), A("udm_tid", "u", "int"), A("delta", "d", "int") >>),
    EventClass("lt_edm_created_event", "lt_edm_created",
      << A("enumname", "e", "str"), A("edm", "e", "EdmModel") >>),
    EventClass("lt_edm_deleted_event", "lt_edm_deleted",
      << A("enumname", "e", "str"), A("edm_tid", "e", "int"), A("edm", "e", "EdmModel") >>),
    EventClass("lt_edm_renamed_event", "lt_edm_renamed",
      << A("enumname", "e", "str"), A("edm", "e", "EdmModel"), A("oldname", "o", "str") >>),
    EventClass("lt_edm_changed_event", "lt_edm_changed",
      << A("enumname", "e", "str"), A("edm_tid", "e", "int"),
         A("edmold", "e", "EdmModel"), A("edmnew", "e", "EdmModel") >>),
    EventClass("stkpnts_changed_event", "stkpnts_changed",
      << A("pfn", "p", "FuncModel") >>),
    EventClass("frame_created_event", "frame_created",
      << A("func_ea", "f", "int") >>),
    EventClass("frame_expanded_event", "frame_expanded",
      << A("func_ea", "f", "int"), A("udm_tid", "u", "int"), A("delta", "d", "int") >>),
    EventClass("frame_deleted_event", "frame_deleted",
      << A("pfn", "p", "FuncModel") >>),
    EventClass("frame_udm_created_event", "frame_udm_created",
      << A("func_ea", "f", "int"), A("udm", "u", "UdmModel") >>),
    EventClass("frame_udm_deleted_event", "frame_udm_deleted",
      << A("func_ea", "f", "int"), A("udm_tid", "u", "int"), A("udm", "u", "UdmModel") >>),
    EventClass("frame_udm_renamed_event", "frame_udm_renamed",
      << A("func_ea", "f", "int"), A("udm", "u", "UdmModel"), A("oldname", "o", "str") >>),
    EventClass("frame_udm_changed_event", "frame_udm_changed",
      << A("func_ea", "f", "int"), A("udm_tid", "u", "int"),
         A("udmold", "u", "UdmModel"), A("udmnew", "u", "UdmModel") >>),
    EventClass("determined_main_event", "determined_main",
      << A("main", "m", "int") >>),
    EventClass("extlang_changed_event", "extlang_changed",
      << A("kind", "k", "int"), A("el", "e", "Any"), A("idx", "i", "int") >>),
    EventClass("idasgn_matched_ea_event", "idasgn_matched_ea",
      << A("ea", "e", "int"), A("name", "n", "str"), A("lib_name", "l", "str") >>)
  >>

idb_event ==
  <<
    "renamed_event", "make_code_event", "make_data_event",
    "func_added_event", "segm_added_event", "segm_moved_event",
    "ti_changed_event", "adding_segm_event", "changing_ti_event",
    "cmt_changed_event", "sgr_changed_event", "sgr_deleted_event",
    "byte_patched_event", "changing_cmt_event", "dirtree_link_event",
    "dirtree_move_event", "dirtree_rank_event", "func_deleted_event",
    "func_updated_event", "segm_deleted_event", "set_func_end_event",
    "allsegs_moved_event", "deleting_func_event", "deleting_segm_event",
    "dirtree_mkdir_event", "dirtree_rmdir_event", "frame_created_event",
    "frame_deleted_event", "op_ti_changed_event", "changing_op_ti_event",
    "frame_expanded_event", "lt_edm_changed_event", "lt_edm_created_event",
    "lt_edm_deleted_event", "lt_edm_renamed_event", "lt_udm_changed_event",
    "lt_udm_created_event", "lt_udm_deleted_event", "lt_udm_renamed_event",
    "set_func_start_event", "destroyed_items_event", "determined_main_event",
    "dirtree_rminode_event", "extlang_changed_event", "lt_udt_expanded_event",
    "op_type_changed_event", "stkpnts_changed_event", "tryblks_updated_event",
    "bookmark_changed_event", "changing_op_type_event", "deleting_tryblks_event",
    "segm_end_changed_event", "updating_tryblks_event", "changing_segm_end_event",
    "extra_cmt_changed_event", "frame_udm_changed_event", "frame_udm_created_event",
    "frame_udm_deleted_event", "frame_udm_renamed_event", "func_tail_deleted_event",
    "idasgn_matched_ea_event", "range_cmt_changed_event", "segm_name_changed_event",
    "changing_range_cmt_event", "changing_segm_name_event", "deleting_func_tail_event",
    "dirtree_segm_moved_event", "func_noret_changed_event", "func_tail_appended_event",
    "item_color_changed_event", "segm_attrs_updated_event", "segm_class_changed_event",
    "segm_start_changed_event", "tail_owner_changed_event", "thunk_func_created_event",
    "callee_addr_changed_event", "changing_segm_class_event", "changing_segm_start_event",
    "local_types_changed_event"
  >>

SnapshotClasses ==
  {"FuncModel", "OpModel", "InsnModel", "SegmentModel", "RangeModel",
   "UdmModel", "EdmModel"}

RangeModel_fields == <<"start_ea", "end_ea">>

ClassIndex(cls) == CHOOSE i \in 1..Len(defined) : defined[i].cls = cls

ClassOf(cls) == defined[ClassIndex(cls)]

SeqRange(s) == {s[i] : i \in 1..Len(s)}

\* every annotation of the class body
Annotated(cl) == {cl.ann[i].name : i \in 1..Len(cl.ann)}

\* model_fields of an event class: the annotations that are not private
EventFields(cl) == {cl.ann[i].name : i \in {j \in 1..Len(cl.ann) : cl.ann[j].lead # "_"}}

AnnIndex(cl, n) == CHOOSE i \in 1..Len(cl.ann) : cl.ann[i].name = n

\* a tag table in which segm_added_event repeats the tag of adding_segm_event
event_name_dup(cls) ==
  IF cls = "segm_added_event" THEN "adding_segm" ELSE ClassOf(cls).tag

\* the Literal of the class's event_name annotation
event_name(cls) == ClassOf(cls).tag

FieldNames(cls) ==
  CASE cls = "FuncModel" -> SeqRange(FuncModel_fields)
    [] cls = "OpModel" -> SeqRange(OpModel_fields)
    [] cls = "InsnModel" -> SeqRange(InsnModel_fields)
    [] cls = "SegmentModel" -> SeqRange(SegmentModel_fields)
    [] cls = "RangeModel" -> SeqRange(RangeModel_fields)
    [] cls = "UdmModel" -> SeqRange(UdmModel_fields)
    [] cls = "EdmModel" -> SeqRange(EdmModel_fields)
    [] OTHER -> EventFields(ClassOf(cls))

\* the declared type of a field
FieldType(cls, n) ==
  CASE cls = "FuncModel" -> IF n = "name" THEN "str | None" ELSE "int"
    [] cls = "OpModel" -> "int"
    [] cls = "InsnModel" ->
         IF n = "ops" THEN "list[OpModel]"
         ELSE IF n \in {"auxpref_u16", "auxpref_u8"} THEN "list[int]" ELSE "int"
    [] cls = "SegmentModel" ->
         IF n \in {"segment_name", "segment_class"} THEN "str | None"
         ELSE IF n = "defsr" THEN "list[int]" ELSE "int"
    [] cls = "RangeModel" -> "int"
    [] cls = "UdmModel" -> IF n \in {"name", "cmt", "repr"} THEN "str" ELSE "int"
    [] cls = "EdmModel" -> IF n \in {"name", "comment"} THEN "str" ELSE "int"
    [] OTHER -> ClassOf(cls).ann[AnnIndex(ClassOf(cls), n)].type

IsInstance(v, cls) == DOMAIN v = {"cls", "f"} /\ v.cls = cls

(***************************************************************************)
(* Event construction from keyword arguments.  A keyword that names no     *)
(* field is ignored (extra = "ignore"); a missing field, a wrong literal   *)
(* or a value of the wrong class is an error; an instance of the declared  *)
(* model class is stored as it is, without being validated again           *)
(* (revalidate_instances = "never").                                       *)
(***************************************************************************)
RECURSIVE Event_errors(_, _, _)
Event_errors(cl, kw, i) ==
  IF i > Len(cl.ann)
    THEN << >>
    ELSE LET a == cl.ann[i]
             e == IF a.name \notin EventFields(cl) THEN << >>
                  ELSE IF a.name \notin DOMAIN kw
                    THEN <<[type |-> "missing", loc |-> a.name]>>
                  ELSE IF a.type = "Literal"
                    THEN IF kw[a.name] = event_name(cl.cls) THEN << >>
                         ELSE <<[type |-> "literal_error", loc |-> a.name,
                                 input |-> kw[a.name]]>>
                  ELSE IF a.type \in SnapshotClasses
                    THEN IF IsInstance(kw[a.name], a.type) THEN << >>
                         ELSE <<[type |-> "model_type", loc |-> a.name]>>
                  ELSE << >>
         IN  e \o Event_errors(cl, kw, i + 1)

Event_new(cl, kw) ==
  LET errors == Event_errors(cl, kw, 1)
  IN  IF errors # << >>
        THEN Failed(errors)
        ELSE Ok(Instance(cl.cls, [n \in EventFields(cl) |-> kw[n]]))

(***************************************************************************)
(* Serialization (model_dump_json): every field of the model, by declared  *)
(* type.  A datetime is written as one number of microseconds, an optional *)
(* string as null or as the string, a nested model as its own dump.        *)
(***************************************************************************)
DumpDatetime(t) == t.sec * 1000000 + t.usec

LoadDatetime(w) == [sec |-> w \div 1000000, usec |-> w % 1000000]

DumpOptional(v) == IF v = None THEN <<"null">> ELSE <<"str", v[1]>>

LoadOptional(w) == IF w = <<"null">> THEN None ELSE Some(w[2])

RECURSIVE DumpModel(_)
DumpModel(m) ==
  [n \in DOMAIN m.f |->
     LET t == FieldType(m.cls, n)
         v == m.f[n]
     IN  CASE t = "datetime" -> DumpDatetime(v)
           [] t = "str | None" -> DumpOptional(v)
           [] t = "list[OpModel]" -> [i \in 1..Len(v) |-> DumpModel(v[i])]
           [] t \in SnapshotClasses -> DumpModel(v)
           [] OTHER -> v]

(***************************************************************************)
(* Deserialization (validation of the dump): a class accepts a dump that   *)
(* has every field of the class and whose values load; the values are then *)
(* validated as at construction.                                           *)
(***************************************************************************)
Construct(cls, kw) ==
  CASE cls = "SegmentModel" -> SegmentModel_new(kw)
    [] cls = "FuncModel" -> FuncModel_new(kw)
    [] cls = "OpModel" -> OpModel_new(kw)
    [] cls = "InsnModel" -> InsnModel_new(kw)
    [] cls = "RangeModel" -> RangeModel_new(kw)
    [] cls = "UdmModel" -> UdmModel_new(kw)
    [] cls = "EdmModel" -> EdmModel_new(kw)
    [] OTHER -> Event_new(ClassOf(cls), kw)

RECURSIVE LoadModel(_, _)
LoadModel(cls, w) ==
  LET names == FieldNames(cls)
      part(n) ==
        LET t == FieldType(cls, n)
        IN  CASE t = "datetime" -> Ok(LoadDatetime(w[n]))
              [] t = "str | None" -> Ok(LoadOptional(w[n]))
              [] t = "list[OpModel]" ->
                   LET subs == [i \in 1..Len(w[n]) |-> LoadModel("OpModel", w[n][i])]
                   IN  IF \A i \in 1..Len(subs) : subs[i].ok
                         THEN Ok([i \in 1..Len(subs) |-> subs[i].value])
                         ELSE Failed(<<[type |-> "model_type", loc |-> n]>>)
              [] t \in SnapshotClasses -> LoadModel(t, w[n])
              [] OTHER -> Ok(w[n])
  IN  IF \E n \in names : n \notin DOMAIN w
        THEN Failed(<<[type |-> "missing", loc |-> cls]>>)
      ELSE IF cls \notin SnapshotClasses /\ w["event_name"] # event_name(cls)
        THEN Failed(<<[type |-> "literal_error", loc |-> "event_name"]>>)
      ELSE IF \E n \in names : ~part(n).ok
        THEN Failed(<<[type |-> "nested", loc |-> cls]>>)
      ELSE Construct(cls, [n \in names |-> part(n).value])

\* validation against the union idb_event: the members are tried in the
\* order of the union and the first that accepts the dump yields the event
LoadUnion(w) ==
  LET accepting == {i \in 1..Len(idb_event) : LoadModel(idb_event[i], w).ok}
  IN  IF accepting = {}
        THEN Failed(<<[type |-> "union", loc |-> "idb_event"]>>)
        ELSE LoadModel(idb_event[CHOOSE i \in accepting :
                                   \A j \in accepting : i <= j], w)

(***************************************************************************)
(* Arguments of the calls                                                  *)
(***************************************************************************)
\* how many payload variants an event kind is constructed with
NumChoices == 2

Timestamps == {[sec |-> 12, usec |-> 0], [sec |-> 12, usec |-> 123456]}

StrPool == <<"", "sub_401000", "parse_header">>

AnyPool == << <<"none">>, <<"int", 7>>, <<"str", "blob">> >>

\* the value passed for the payload annotation at position p, variant c
SampleValue(type, c, p) ==
  CASE type = "int" -> 100 * c + p
    [] type = "str" -> StrPool[((c + p) % 3) + 1]
    [] type = "bool" -> (c + p) % 2 = 0
    [] type = "Any" -> AnyPool[((c + p) % 3) + 1]
    [] type = "SegmentModel" ->
         from_segment_t(HostSegment(2, 8, IF c = 1 THEN None ELSE Some(".text"),
                                    Some("CODE"))).value
    [] type = "FuncModel" ->
         from_func_t(HostFunc(4198400 + 4096 * p, TRUE,
                              IF c = 1 THEN None ELSE Some("main"))).value
    [] type = "InsnModel" -> from_insn_t(HostInsn(2)).value
    [] type = "RangeModel" ->
         from_range_t([start_ea |-> 4198400 + p, end_ea |-> 4198416 + p]).value
    [] type = "UdmModel" -> from_udm_t(HostUdm(Some([tid |-> 70 + p]), "field_8")).value
    [] type = "EdmModel" -> from_edm_t([name |-> "RED", cmt |-> "", value |-> c,
                                        tid |-> 90 + p]).value

\* the assignments `obj.name = value` tried on an instance
AssignSamples(o) ==
  CASE o.cls = "SegmentModel" -> {<<"bitness", 3>>, <<"segment_name", None>>}
    [] o.cls = "FuncModel" -> {<<"name", Some("renamed")>>}
    [] o.cls = "InsnModel" -> {<<"ops", << >> >>}
    [] o.cls = "OpModel" -> {<<"n", 9>>}
    [] o.cls = "RangeModel" -> {<<"end_ea", 0>>}
    [] o.cls = "UdmModel" -> {<<"name", "renamed">>}
    [] o.cls = "EdmModel" -> {<<"value", 0>>}
    [] OTHER -> {<<"timestamp", [sec |-> 13, usec |-> 999]>>}

\* the position of the first annotation of the class of the held snapshot
HeldIndex(cl) ==
  IF obj = NoValue \/ obj.cls \notin SnapshotClasses
    THEN 0
    ELSE LET at == {i \in 1..Len(cl.ann) : cl.ann[i].type = obj.cls}
         IN  IF at = {} THEN 0 ELSE CHOOSE i \in at : \A j \in at : i <= j

EventKwargs(cl, c, ts, tag) ==
  [n \in Annotated(cl) |->
     LET i == AnnIndex(cl, n)
         a == cl.ann[i]
     IN  IF a.type = "Literal" THEN tag
         ELSE IF a.type = "datetime" THEN ts
         ELSE IF i = HeldIndex(cl) THEN obj
         ELSE SampleValue(a.type, c, i)]

\* the caller holds nothing: no call has been made since the last hand-off
Idle == last.op = "none"

Returned(op, arg, r) ==
  /\ obj' = r.value
  /\ err' = r.errors
  /\ last' = [op |-> op, arg |-> arg]
  /\ wire' = NoValue
  /\ back' = NoValue

\* SegmentModel(start_ea=..., ..., segment_class=...)
NewSegmentModel(kw) ==
  /\ Idle
  /\ Returned("SegmentModel", kw, SegmentModel_new(kw))

Init ==
  /\ obj = NoValue
  /\ err = << >>
  /\ last = [op |-> "none", arg |-> NoValue]
  /\ wire = NoValue
  /\ back = NoValue
  /\ hist = NoValue
  /\ defined = EventClasses
  /\ host = [type |-> "none"]
  /\ tree = << >>
  /\ run = NoValue

\* the caller passes the result on (or drops the error) and holds nothing
Handoff ==
  /\ ~Idle
  /\ obj' = NoValue
  /\ err' = << >>
  /\ last' = [op |-> "none", arg |-> NoValue]
  /\ wire' = NoValue
  /\ back' = NoValue
  /\ UNCHANGED <<hist, defined, host, tree, run>>

NextSegment ==
  \/ Handoff
  \/ /\ Idle
     /\ \E b \in BitnessSamples, al \in U8Samples \cup {16}, co \in U8Samples,
           pe \in U8Samples, ty \in U8Samples, fl \in U16Samples,
           dl \in DefsrLens, sn \in {None, Some(".text")} :
          NewSegmentModel(SegmentKwargs(b, al, co, pe, ty, fl, dl, sn))
     /\ UNCHANGED <<hist, defined, host, tree, run>>

\* direct construction of segment snapshots from arbitrary field values
SpecSegment == Init /\ [][NextSegment]_vars

(***************************************************************************)
(* The calls                                                               *)
(***************************************************************************)
CallFromSegment(segment) ==
  /\ Idle
  /\ Returned("from_segment_t", [host |-> segment], from_segment_t(segment))

CallFromFunc(func) ==
  /\ Idle
  /\ Returned("from_func_t", [host |-> func], from_func_t(func))

CallFromOp(op) ==
  /\ Idle
  /\ Returned("from_op_t", [host |-> op], from_op_t(op))

CallFromInsn(insn) ==
  /\ Idle
  /\ Returned("from_insn_t", [host |-> insn], from_insn_t(insn))

CallFromRange(r) ==
  /\ Idle
  /\ Returned("from_range_t", [host |-> r], from_range_t(r))

CallFromUdm(udm) ==
  /\ Idle
  /\ Returned("from_udm_t", [host |-> udm], from_udm_t(udm))

CallFromEdm(edm) ==
  /\ Idle
  /\ Returned("from_edm_t", [host |-> edm], from_edm_t(edm))

\* InsnModel(cs=..., ..., ops=[...]) with an operand list of n elements
NewInsnModel(insn, n) ==
  /\ Idle
  /\ LET kw == [from_insn_t(insn).value.f EXCEPT
                  !.ops = [i \in 1..n |-> from_op_t(HostOp((i - 1) % NumOps, 2)).value]]
     IN  Returned("InsnModel", kw, InsnModel_new(kw))

\* an event class called with keyword arguments; a snapshot the caller holds
\* is passed for the first annotation of its class
NewEvent(k, c, ts, tag) ==
  LET cl == defined[k]
      kw == EventKwargs(cl, c, ts, tag)
  IN  /\ Idle \/ HeldIndex(cl) > 0
      /\ Returned("event", [cls |-> cl.cls, kw |-> kw], Event_new(cl, kw))

\* obj.n = v: the classes set no model_config, so the instance is not frozen
\* and the value is stored without validation
SetAttr(n, v) ==
  /\ obj # NoValue
  /\ n \in DOMAIN obj.f
  /\ obj' = [obj EXCEPT !.f[n] = v]
  /\ err' = << >>
  /\ last' = [op |-> "setattr", arg |-> [name |-> n, value |-> v]]
  /\ UNCHANGED <<wire, back>>

IsEvent(o) == o # NoValue /\ o.cls \notin SnapshotClasses

\* the event the caller holds is serialized
Serialize ==
  /\ IsEvent(obj)
  /\ last.op \notin {"model_dump", "validate"}
  /\ wire' = DumpModel(obj)
  /\ back' = NoValue
  /\ err' = << >>
  /\ last' = [op |-> "model_dump", arg |-> obj]
  /\ UNCHANGED obj

\* the serialized form is validated as an idb_event
Deserialize ==
  /\ last.op = "model_dump"
  /\ LET r == LoadUnion(wire)
     IN  /\ back' = r.value
         /\ err' = r.errors
  /\ last' = [op |-> "validate", arg |-> last.arg]
  /\ UNCHANGED <<obj, wire>>

Next ==
  \/ Handoff
  \/ /\ Idle
     /\ \E s \in HostSegments \cup {NoValue} : CallFromSegment(s)
     /\ UNCHANGED <<hist, defined, host, tree, run>>
  \/ /\ Idle
     /\ \E f \in HostFuncs : CallFromFunc(f)
     /\ UNCHANGED <<hist, defined, host, tree, run>>
  \/ /\ Idle
     /\ \E insn \in HostInsns, i \in {0, NumOps - 1} : CallFromOp(insn.ops[i])
     /\ UNCHANGED <<hist, defined, host, tree, run>>
  \/ /\ Idle
     /\ \E insn \in HostInsns : CallFromInsn(insn)
     /\ UNCHANGED <<hist, defined, host, tree, run>>
  \/ /\ Idle
     /\ \E r \in HostRanges : CallFromRange(r)
     /\ UNCHANGED <<hist, defined, host, tree, run>>
  \/ /\ Idle
     /\ \E u \in HostUdms : CallFromUdm(u)
     /\ UNCHANGED <<hist, defined, host, tree, run>>
  \/ /\ Idle
     /\ \E e \in HostEdms : CallFromEdm(e)
     /\ UNCHANGED <<hist, defined, host, tree, run>>
  \/ /\ Idle
     /\ \E insn \in HostInsns, n \in {0, NumOps - 1, NumOps, NumOps + 1} :
          NewInsnModel(insn, n)
     /\ UNCHANGED <<hist, defined, host, tree, run>>
  \/ /\ Idle \/ (obj # NoValue /\ obj.cls \in SnapshotClasses)
     /\ \E k \in 1..Len(defined), c \in 1..NumChoices, ts \in Timestamps :
          \E tag \in {defined[k].tag, "segm_added"} :
            NewEvent(k, c, ts, tag)
     /\ UNCHANGED <<hist, defined, host, tree, run>>
  \/ /\ obj # NoValue
     /\ \E a \in AssignSamples(obj) : SetAttr(a[1], a[2])
     /\ UNCHANGED <<hist, defined, host, tree, run>>
  \/ Serialize /\ UNCHANGED <<hist, defined, host, tree, run>>
  \/ Deserialize /\ UNCHANGED <<hist, defined, host, tree, run>>

Spec == Init /\ [][Next]_vars

(***************************************************************************)
(* C1: SegmentModel construction fails if and only if bitness is not in    *)
(* {0,1,2}, or align, comb, perm or type is outside 0..255, or flags is    *)
(* outside 0..65535, or defsr does not have 16 elements; otherwise it      *)
(* succeeds and every field is stored as given.                            *)
(***************************************************************************)
InDomain(kw) ==
  /\ kw.bitness \in {0, 1, 2}
  /\ \A n \in {"align", "comb", "perm", "type"} : kw[n] >= 0 /\ kw[n] <= 255
  /\ kw.flags >= 0 /\ kw.flags <= 65535
  /\ Len(kw.defsr) = 16

C1_ConstructionFailsIffOutOfDomain ==
  last.op = "SegmentModel" =>
    /\ (obj = NoValue) <=> ~InDomain(last.arg)
    /\ (obj = NoValue) <=> (err # << >>)
    /\ obj # NoValue =>
         /\ obj.cls = "SegmentModel"
         /\ DOMAIN obj.f = DOMAIN last.arg
         /\ \A n \in DOMAIN last.arg : obj.f[n] = last.arg[n]

\* the scenario of the specification: bitness=2, align=16, comb=1 ... succeeds
C1_Witness ==
  /\ last.op = "SegmentModel"
  /\ last.arg.bitness = 2 /\ last.arg.align = 16 /\ last.arg.flags = 8
  /\ Len(last.arg.defsr) = 16
  /\ obj # NoValue /\ obj.f.bitness = 2 /\ obj.f.align = 16

(***************************************************************************)
(* C8: when SegmentModel construction fails validation, the error names    *)
(* each offending field together with the value that was rejected, for     *)
(* bitness, align, comb, perm, type, flags and defsr.                      *)
(***************************************************************************)
OutOfDomain(n, v) ==
  CASE n = "bitness" -> v \notin {0, 1, 2}
    [] n \in {"align", "comb", "perm", "type"} -> v < 0 \/ v > 255
    [] n = "flags" -> v < 0 \/ v > 65535
    [] n = "defsr" -> Len(v) # 16
    [] OTHER -> FALSE

C8_ErrorNamesFieldAndValue ==
  (last.op = "SegmentModel" /\ ~InDomain(last.arg)) =>
    /\ err # << >>
    /\ \A n \in SegmentModel_validated :
         OutOfDomain(n, last.arg[n]) =>
           \E i \in 1..Len(err) : err[i].loc = n /\ err[i].input = last.arg[n]
    /\ \A i \in 1..Len(err) :
         /\ err[i].loc \in SegmentModel_validated
         /\ OutOfDomain(err[i].loc, last.arg[err[i].loc])
         /\ err[i].input = last.arg[err[i].loc]

\* a construction rejected for its bitness and for its defsr length at once
C8_Witness ==
  /\ last.op = "SegmentModel"
  /\ last.arg.bitness = 3 /\ Len(last.arg.defsr) = 17 /\ last.arg.align = 0
  /\ obj = NoValue
  /\ Len(err) = 2
  /\ err[1].loc = "bitness" /\ err[1].input = 3
  /\ err[2].loc = "defsr" /\ Len(err[2].input) = 17

(***************************************************************************)
(* C2: every InsnModel that exists has exactly 8 operands: from_insn_t     *)
(* yields 8, and direct construction with any other number is rejected.    *)
(***************************************************************************)
C2_OpsAlwaysEight ==
  /\ (last.op \in {"from_insn_t", "InsnModel"} /\ obj # NoValue) =>
       Len(obj.f.ops) = 8
  /\ (last.op = "InsnModel" /\ Len(last.arg.ops) # 8) => obj = NoValue

(***************************************************************************)
(* C3: no two members of the idb_event union declare the same event_name   *)
(* literal, so the tag of an event selects exactly one member.             *)
(***************************************************************************)
C3_TagsOneToOne ==
  /\ Cardinality({event_name(idb_event[i]) : i \in 1..Len(idb_event)})
       = Len(idb_event)
  /\ (last.op = "event" /\ obj # NoValue) =>
       {i \in 1..Len(idb_event) : event_name(idb_event[i]) = obj.f.event_name}
         = {i \in 1..Len(idb_event) : idb_event[i] = obj.cls}

\* a segm_added event was constructed, and its tag selects segm_added_event
C3_Witness ==
  /\ last.op = "event"
  /\ obj # NoValue
  /\ obj.cls = "segm_added_event"
  /\ obj.f.event_name = "segm_added"
  /\ \E i \in 1..Len(idb_event) : idb_event[i] = obj.cls

(***************************************************************************)
(* C4: a constructed snapshot or event is never mutated: an assignment to  *)
(* one of its fields leaves every field at the value given at construction *)
(***************************************************************************)
C4_NeverMutated == [][(obj # NoValue /\ last'.op = "setattr") => obj' = obj]_vars

(***************************************************************************)
(* C5: every payload value supplied when an event is constructed is        *)
(* readable from the finished event and present in its serialized form     *)
(* (segm_moved and dirtree_move carry both _from and to).                  *)
(***************************************************************************)
C5_EveryPayloadValueCarried ==
  (last.op = "event" /\ obj # NoValue) =>
    \A n \in DOMAIN last.arg.kw :
      /\ n \in DOMAIN obj.f
      /\ obj.f[n] = last.arg.kw[n]
      /\ n \in DOMAIN DumpModel(obj)

(***************************************************************************)
(* C6: serializing any event and validating the result as an idb_event     *)
(* yields an event of the same kind that is equal in every field.          *)
(***************************************************************************)
C6_RoundTrip ==
  last.op = "validate" =>
    /\ back # NoValue
    /\ back.cls = last.arg.cls
    /\ back = last.arg

(***************************************************************************)
(* C9: the converters copy optional fields as present or absent: the name  *)
(* of a FuncModel is absent exactly when the host has no resolvable name   *)
(* and is otherwise the host's name; the same for segment_name and         *)
(* segment_class of a SegmentModel.  An absent name is never turned into   *)
(* an empty string.                                                        *)
(***************************************************************************)
C9_OptionalCopied ==
  /\ (last.op = "from_func_t" /\ obj # NoValue) =>
       LET h == last.arg.host
           resolvable == h.has_get_name /\ h.get_name # None
       IN  /\ (obj.f.name = None) <=> ~resolvable
           /\ resolvable => obj.f.name = h.get_name
  /\ (last.op = "from_segment_t" /\ obj # NoValue) =>
       LET h == last.arg.host
       IN  /\ (obj.f.segment_name = None) <=> (h.get_segm_name = None)
           /\ obj.f.segment_name = h.get_segm_name
           /\ (obj.f.segment_class = None) <=> (h.get_segm_class = None)
           /\ obj.f.segment_class = h.get_segm_class

\* a segment whose name is unknown and whose class is known was converted
C9_Witness ==
  /\ last.op = "from_segment_t"
  /\ obj # NoValue
  /\ last.arg.host.get_segm_name = None
  /\ last.arg.host.get_segm_class = Some("CODE")
  /\ obj.f.segment_name = None
  /\ obj.f.segment_class = Some("CODE")

(***************************************************************************)
(* C10: from_insn_t copies all 8 operand slots in host order, slots not in *)
(* use included, and the n of the operand at position i is i.              *)
(***************************************************************************)
C10_OperandSlots ==
  (last.op = "from_insn_t" /\ obj # NoValue) =>
    /\ Len(obj.f.ops) = 8
    /\ \A i \in 0..7 :
         /\ obj.f.ops[i + 1].cls = "OpModel"
         /\ DOMAIN obj.f.ops[i + 1].f = SeqRange(OpModel_fields)
         /\ \A n \in SeqRange(OpModel_fields) :
              obj.f.ops[i + 1].f[n] = last.arg.host.ops[i][n]
         /\ obj.f.ops[i + 1].f.n = i

\* an instruction with 2 operands in use was converted: slot 2 is copied as
\* an operand of type o_void
C10_Witness ==
  /\ last.op = "from_insn_t"
  /\ obj # NoValue
  /\ last.arg.host.ops[1].type = 1
  /\ last.arg.host.ops[2].type = 0
  /\ obj.f.ops[2].f.type = 1
  /\ obj.f.ops[3].f.type = 0
  /\ obj.f.ops[3].f.n = 2

(***************************************************************************)
(* Sequences of capture calls.  One earlier call is remembered with what   *)
(* it returned, together with whether a later call has failed since.       *)
(***************************************************************************)
Track ==
  \/ /\ hist = NoValue
     /\ hist' \in {hist, [call |-> last', value |-> obj', errors |-> err',
                          failed |-> FALSE]}
  \/ /\ hist # NoValue
     /\ hist' = [hist EXCEPT !.failed = @ \/ obj' = NoValue]

\* the event kinds that carry a segment or a type member snapshot
CaptureKinds ==
  {k \in 1..Len(defined) :
     \E i \in 1..Len(defined[k].ann) :
       defined[k].ann[i].type \in {"SegmentModel", "UdmModel"}}

NextCapture ==
  \/ Handoff
  \/ /\ Idle
     /\ \E s \in HostSegments \cup {NoValue} : CallFromSegment(s)
     /\ Track
     /\ UNCHANGED <<defined, host, tree, run>>
  \/ /\ Idle
     /\ \E u \in HostUdms : CallFromUdm(u)
     /\ Track
     /\ UNCHANGED <<defined, host, tree, run>>
  \/ /\ Idle \/ (obj # NoValue /\ obj.cls \in SnapshotClasses)
     /\ \E k \in CaptureKinds, ts \in {[sec |-> 12, usec |-> 0]} :
          NewEvent(k, 1, ts, defined[k].tag)
     /\ Track
     /\ UNCHANGED <<defined, host, tree, run>>

\* capture calls one after another, some of which fail
SpecCapture == Init /\ [][NextCapture]_vars

C7_WitnessFailure ==
  /\ hist # NoValue
  /\ hist.failed
  /\ hist.value = NoValue
  /\ last.op = hist.call.op
  /\ last.arg = hist.call.arg
  /\ err = hist.errors
  /\ err # << >>

(***************************************************************************)
(* Hooks.  The host hands a structure it owns to a hook, and the hook      *)
(* converts it; the host may change the structure between two hooks.       *)
(***************************************************************************)
HostStructures ==
  {[type |-> "segment_t", at |-> h] : h \in HostSegments \cup {NoValue}}
    \cup {[type |-> "func_t", at |-> h] : h \in HostFuncs}
    \cup {[type |-> "op_t", at |-> insn.ops[i]] : insn \in HostInsns, i \in {0, NumOps - 1}}
    \cup {[type |-> "insn_t", at |-> h] : h \in HostInsns}
    \cup {[type |-> "range_t", at |-> h] :
            h \in HostRanges \cup {[start_ea |-> 4198400, end_ea |-> 4198400]}}
    \cup {[type |-> "udm_t", at |-> h] : h \in HostUdms}
    \cup {[type |-> "edm_t", at |-> h] : h \in HostEdms}

Converters ==
  {"from_func_t", "from_op_t", "from_insn_t", "from_segment_t", "from_range_t",
   "from_udm_t", "from_edm_t"}

\* the host calls a hook with a structure
HookCalled(h) ==
  /\ host' = h
  /\ hist' = NoValue
  /\ UNCHANGED <<obj, err, last, wire, back, defined, tree, run>>

\* the host changes the structure it owns (it stays of the same type)
HostMutates(h) ==
  /\ host.type = h.type
  /\ host.at # h.at
  /\ host' = h
  /\ hist' = IF hist = NoValue THEN hist ELSE [hist EXCEPT !.mutated = TRUE]
  /\ UNCHANGED <<obj, err, last, wire, back, defined, tree, run>>

\* the hook applies the converter of the structure's type; a converter only
\* reads attributes of its argument and calls its getters
ConvertHost ==
  /\ host.type # "none"
  /\ \/ host.type = "func_t" /\ CallFromFunc(host.at)
     \/ host.type = "op_t" /\ CallFromOp(host.at)
     \/ host.type = "insn_t" /\ CallFromInsn(host.at)
     \/ host.type = "segment_t" /\ CallFromSegment(host.at)
     \/ host.type = "range_t" /\ CallFromRange(host.at)
     \/ host.type = "udm_t" /\ CallFromUdm(host.at)
     \/ host.type = "edm_t" /\ CallFromEdm(host.at)
  /\ host' = host
  /\ hist' = IF hist = NoValue
               THEN [call |-> last', value |-> obj', errors |-> err',
                     mutated |-> FALSE, again |-> FALSE]
               ELSE [hist EXCEPT !.again = @ \/ ~hist.mutated]
  /\ UNCHANGED <<defined, tree, run>>

NextConvert ==
  \/ Handoff
  \/ /\ Idle
     /\ \E h \in HostStructures : HookCalled(h)
  \/ /\ Idle
     /\ \E h \in HostStructures : HostMutates(h)
  \/ /\ Idle
     /\ ConvertHost

\* hooks converting host structures, twice and more, with and without a
\* change of the structure in between
SpecConvert == Init /\ [][NextConvert]_vars

C12_EventSegmentsInDomain ==
  /\ IsEvent(obj) =>
       \A n \in DOMAIN obj.f :
         FieldType(obj.cls, n) = "SegmentModel" => InDomain(obj.f[n].f)
  /\ (last.op = "event" /\
      \E n \in DOMAIN last.arg.kw :
        /\ FieldType(last.arg.cls, n) = "SegmentModel"
        /\ ~InDomain(last.arg.kw[n].f)) => obj = NoValue

(***************************************************************************)
(* C13: the taxonomy is closed and complete: every event class the module  *)
(* defines is a member of idb_event exactly once, idb_event has no other   *)
(* member, and the tag of every class is the class name without its        *)
(* _event suffix; so the tag of any event that can be constructed selects  *)
(* a member of idb_event, and that member is the event's class.            *)
(***************************************************************************)
C13_TaxonomyClosedAndComplete ==
  /\ \A k \in 1..Len(defined) :
       /\ Cardinality({i \in 1..Len(idb_event) : idb_event[i] = defined[k].cls}) = 1
       /\ defined[k].cls = defined[k].tag \o "_event"
  /\ \A i \in 1..Len(idb_event) :
       \E k \in 1..Len(defined) : defined[k].cls = idb_event[i]
  /\ Len(idb_event) = Len(defined)
  /\ (last.op = "event" /\ obj # NoValue) =>
       \E i \in 1..Len(idb_event) :
         /\ obj.f.event_name \o "_event" = idb_event[i]
         /\ idb_event[i] = obj.cls

\* an event of the class defined last was constructed; its tag selects a
\* member of the union, which is listed in another order than the classes
C13_Witness ==
  /\ last.op = "event"
  /\ obj # NoValue
  /\ obj.cls = defined[Len(defined)].cls
  /\ obj.f.event_name = "idasgn_matched_ea"
  /\ \E i \in 1..(Len(idb_event) - 1) : idb_event[i] = "idasgn_matched_ea_event"

(***************************************************************************)
(* plugins/tag_func.py.  A Python str is a sequence of one-character       *)
(* strings, so that split, join, slicing and concatenation act on the      *)
(* characters: "/t/m" is <<"/", "t", "/", "m">>.                           *)
(*                                                                         *)
(* The function dirtree is the sequence of its entries in the order the    *)
(* host lists them; an entry is [path, isdir, ea] with the absolute path,  *)
(* and ea the address of the function of a function entry (0 for a         *)
(* directory).  The root directory "/" is not an entry.                    *)
(***************************************************************************)
DTE_OK == "DTE_OK"

RECURSIVE str_split(_, _)
\* s.split(sep) for a one-character separator
str_split(s, sep) ==
  LET at == {i \in 1..Len(s) : s[i] = sep}
  IN  IF at = {}
        THEN <<s>>
        ELSE LET i == CHOOSE k \in at : \A j \in at : k <= j
             IN  <<SubSeq(s, 1, i - 1)>> \o str_split(SubSeq(s, i + 1, Len(s)), sep)

RECURSIVE str_join(_, _)
\* sep.join(parts)
str_join(parts, sep) ==
  IF Len(parts) = 0 THEN << >>
  ELSE IF Len(parts) = 1 THEN parts[1]
  ELSE parts[1] \o <<sep>> \o str_join(Tail(parts), sep)

RECURSIVE str_lstrip(_, _)
\* s.lstrip(c)
str_lstrip(s, c) ==
  IF Len(s) > 0 /\ s[1] = c THEN str_lstrip(Tail(s), c) ELSE s

\* dir.isdir(path)
dirtree_isdir(t, path) ==
  \/ path = <<"/">>
  \/ \E i \in 1..Len(t) : t[i].path = path /\ t[i].isdir

dirtree_exists(t, path) ==
  \/ path = <<"/">>
  \/ \E i \in 1..Len(t) : t[i].path = path

\* the path of the directory that holds the entry at `path` ("" for the root)
dirtree_parent(path) ==
  LET parts == str_split(path, "/")
  IN  str_join(SubSeq(parts, 1, Len(parts) - 1), "/")

dirtree_parent_isdir(t, path) ==
  dirtree_parent(path) = << >> \/ dirtree_isdir(t, dirtree_parent(path))

\* dir.mkdir(path): the directory is added and DTE_OK returned, or an error
\* code is returned and the tree is left as it was.  `faults` are the paths
\* at which the host refuses the operation for a reason of its own.
dirtree_mkdir(t, path, faults) ==
  IF path \in faults THEN [e |-> "DTE_MAX_DIR", tree |-> t]
  ELSE IF dirtree_exists(t, path) THEN [e |-> "DTE_ALREADY_EXISTS", tree |-> t]
  ELSE IF ~dirtree_parent_isdir(t, path) THEN [e |-> "DTE_NOT_FOUND", tree |-> t]
  ELSE [e |-> DTE_OK, tree |-> Append(t, [path |-> path, isdir |-> TRUE, ea |-> 0])]

IsPrefix(a, b) == Len(a) <= Len(b) /\ SubSeq(b, 1, Len(a)) = a

\* dir.rename(src, dst): the entry at src, with everything below it when it
\* is a directory, is moved to dst, or an error code is returned
dirtree_rename(t, src, dst, faults) ==
  IF dst \in faults THEN [e |-> "DTE_CANT_RENAME", tree |-> t]
  ELSE IF src = <<"/">> \/ ~dirtree_exists(t, src) THEN [e |-> "DTE_NOT_FOUND", tree |-> t]
  ELSE IF dirtree_exists(t, dst) THEN [e |-> "DTE_ALREADY_EXISTS", tree |-> t]
  ELSE IF ~dirtree_parent_isdir(t, dst) THEN [e |-> "DTE_NOT_FOUND", tree |-> t]
  ELSE IF IsPrefix(src \o <<"/">>, dst) THEN [e |-> "DTE_OWN_CHILD", tree |-> t]
  ELSE [e |-> DTE_OK,
        tree |-> [i \in 1..Len(t) |->
                    IF t[i].path = src \/ IsPrefix(src \o <<"/">>, t[i].path)
                      THEN [t[i] EXCEPT !.path =
                              dst \o SubSeq(t[i].path, Len(src) + 1, Len(t[i].path))]
                      ELSE t[i]]]

\* one call on the dirtree, as recorded in the run
DirCall(fn, path, result) == [fn |-> fn, path |-> path, result |-> result]

RECURSIVE DirtreeMkdirsFrom(_, _, _, _, _)
\* the loop `for i in range(2, len(parts) + 1)` from i = k on
DirtreeMkdirsFrom(t, parts, k, calls, faults) ==
  IF k > Len(parts)
    THEN [ret |-> DTE_OK, tree |-> t, calls |-> calls]
    ELSE LET prefix == str_join(SubSeq(parts, 1, k), "/")
             isdir == dirtree_isdir(t, prefix)
             m == dirtree_mkdir(t, prefix, faults)
         IN  IF ~isdir
               THEN IF m.e # DTE_OK
                      THEN [ret |-> m.e, tree |-> m.tree,
                            calls |-> calls \o <<DirCall("isdir", prefix, FALSE),
                                                 DirCall("mkdir", prefix, m.e)>>]
                      ELSE DirtreeMkdirsFrom(m.tree, parts, k + 1,
                             calls \o <<DirCall("isdir", prefix, FALSE),
                                        DirCall("mkdir", prefix, m.e)>>, faults)
               ELSE DirtreeMkdirsFrom(t, parts, k + 1,
                      calls \o <<DirCall("isdir", prefix, TRUE)>>, faults)

\* a variant whose loop starts one prefix too deep
dirtree_mkdirs_skip(t, path, faults) ==
  DirtreeMkdirsFrom(t, str_split(path, "/"), 3, << >>, faults)

dirtree_mkdirs(t, path, faults) ==
  DirtreeMkdirsFrom(t, str_split(path, "/"), 2, << >>, faults)

\* dirtree_find(dir, prefix + "*") from entry i on: the entries directly
\* inside the directory `prefix`, in the order the host lists them
RECURSIVE dirtree_find(_, _, _)
dirtree_find(t, prefix, i) ==
  IF i > Len(t) THEN << >>
  ELSE LET rest == SubSeq(t[i].path, Len(prefix) + 1, Len(t[i].path))
           hit == /\ IsPrefix(prefix, t[i].path)
                  /\ Len(rest) > 0
                  /\ \A j \in 1..Len(rest) : rest[j] # "/"
       IN  (IF hit THEN <<t[i]>> ELSE << >>) \o dirtree_find(t, prefix, i + 1)

\* dir.get_entry_name(dirent): the last component of the entry's path, for
\* a function entry and for a directory alike
get_entry_name(path) ==
  LET parts == str_split(path, "/") IN parts[Len(parts)]

RECURSIVE Matching(_, _)
\* the paths of the entries of a listing that have the given name
Matching(listing, name) ==
  IF listing = << >> THEN << >>
  ELSE (IF get_entry_name(Head(listing).path) = name
          THEN <<Head(listing).path>> ELSE << >>)
       \o Matching(Tail(listing), name)

RECURSIVE Subdirs(_)
\* abspath + "/" of the directories of a listing
Subdirs(listing) ==
  IF listing = << >> THEN << >>
  ELSE (IF Head(listing).isdir THEN <<Head(listing).path \o <<"/">> >> ELSE << >>)
       \o Subdirs(Tail(listing))

RECURSIVE dirtree_find_name(_, _, _)
\* the paths dirtree_find_name yields, in order: breadth first from "/"
dirtree_find_name(t, name, directories) ==
  IF directories = << >> THEN << >>
  ELSE LET listing == dirtree_find(t, Head(directories), 1)
       IN  Matching(listing, name)
             \o dirtree_find_name(t, name, Tail(directories) \o Subdirs(listing))

\* the functions of the database: ida_name.get_name(ea) of each
Functions ==
  {[ea |-> 4198400, name |-> <<"m", "n">>], [ea |-> 4202496, name |-> <<"k">>],
   [ea |-> 4206592, name |-> << >>]}

get_name(ea) == (CHOOSE f \in Functions : f.ea = ea).name

find_function_dirtree_path(t, va) ==
  LET name == get_name(va)
      found == dirtree_find_name(t, name, << <<"/">> >>)
  IN  IF name = << >> THEN None
      ELSE IF found # << >> THEN Some(found[1])
      ELSE None

Return(t, calls) == [tree |-> t, calls |-> calls]

\* main(): ui.func is ida_funcs.get_func(get_screen_ea()) (None, or the start
\* address), ui.answer what ask_str returns (None when cancelled), and ui.keep
\* says that the user accepted the default offered, the existing tag
main(t, ui) ==
  IF ui.func = None THEN Return(t, << >>)
  ELSE
  LET found == find_function_dirtree_path(t, ui.func[1])
  IN
  IF found = None THEN Return(t, << >>)
  ELSE
  LET path == found[1]
      name == get_entry_name(path)
      existing_tag == str_lstrip(SubSeq(path, 1, Len(path) - (1 + Len(name))), "/")
      tag == IF ui.keep THEN Some(existing_tag) ELSE ui.answer
  IN
  IF tag = None \/ tag = Some(<< >>) THEN Return(t, << >>)
  ELSE
  LET tag_path == <<"/">> \o tag[1]
      isdir == dirtree_isdir(t, tag_path)
      made == dirtree_mkdirs(t, tag_path, ui.faults)
      t1 == IF isdir THEN t ELSE made.tree
      calls1 == <<DirCall("isdir", tag_path, isdir)>>
                  \o (IF isdir THEN << >> ELSE made.calls)
      src_path == path
      dst_path == tag_path \o <<"/">> \o get_entry_name(src_path)
      moved == dirtree_rename(t1, src_path, dst_path, ui.faults)
  IN
  IF ~isdir /\ made.ret # DTE_OK THEN Return(t1, calls1)
  ELSE IF src_path = dst_path THEN Return(t1, calls1)
  ELSE Return(moved.tree,
              calls1 \o <<[fn |-> "rename", path |-> src_path, to |-> dst_path,
                           result |-> moved.e]>>)

(***************************************************************************)
(* Databases and calls of the plugin                                       *)
(***************************************************************************)
\* the deepest path passed to dirtree_mkdirs
MaxDepth == 3

D(path) == [path |-> path, isdir |-> TRUE, ea |-> 0]

F(path, ea) == [path |-> path, isdir |-> FALSE, ea |-> ea]

\* function dirtrees of a database when the plugin is run
SampleTrees ==
  { << F(<<"/", "m", "n">>, 4198400), F(<<"/", "k">>, 4202496) >>,
    << D(<<"/", "t">>), F(<<"/", "t", "/", "m", "n">>, 4198400),
       F(<<"/", "k">>, 4202496) >>,
    << D(<<"/", "t">>), D(<<"/", "t", "/", "u">>),
       F(<<"/", "t", "/", "u", "/", "m", "n">>, 4198400),
       F(<<"/", "k">>, 4202496) >>,
    << D(<<"/", "m", "n">>), D(<<"/", "t">>),
       F(<<"/", "t", "/", "m", "n">>, 4198400), F(<<"/", "k">>, 4202496) >>,
    << F(<<"/", "k">>, 4202496) >> }

Names == {<<"t">>, <<"u">>, <<"k">>}

RECURSIVE AbsPath(_)
\* "/c1/c2/.../cn" for the components c1 .. cn
AbsPath(comps) ==
  IF comps = << >> THEN << >>
  ELSE <<"/">> \o Head(comps) \o AbsPath(Tail(comps))

Components == UNION {[1..n -> Names] : n \in 1..MaxDepth}

Faults == {{}, {<<"/", "t">>}, {<<"/", "t", "/", "u">>}, {<<"/", "u", "/", "m", "n">>}}

Answers ==
  {None, Some(<< >>), Some(<<"t">>), Some(<<"u">>), Some(<<"t", "/", "u">>),
   Some(<<"k">>)}

\* a database is opened: its function dirtree is what the plugin works on
OpenDatabase(t) ==
  /\ tree' = t
  /\ run' = NoValue
  /\ UNCHANGED <<obj, err, last, wire, back, hist, defined, host>>

\* dirtree_mkdirs(func_dir, path)
CallDirtreeMkdirs(comps, faults) ==
  LET path == AbsPath(comps)
      r == dirtree_mkdirs(tree, path, faults)
  IN  /\ tree' = r.tree
      /\ run' = [op |-> "dirtree_mkdirs", comps |-> comps, path |-> path,
                 before |-> tree, calls |-> r.calls, ret |-> r.ret]
      /\ last' = [op |-> "dirtree_mkdirs", arg |-> NoValue]
      /\ UNCHANGED <<obj, err, wire, back, hist, defined, host>>

\* the hotkey of the plugin: FunctionTagPlugin.run calls main()
RunMain(ui) ==
  LET r == main(tree, ui)
  IN  /\ tree' = r.tree
      /\ run' = [op |-> "main", ui |-> ui, before |-> tree, calls |-> r.calls]
      /\ last' = [op |-> "main", arg |-> NoValue]
      /\ UNCHANGED <<obj, err, wire, back, hist, defined, host>>

NextTag ==
  \/ Handoff
  \/ /\ Idle
     /\ \E t \in SampleTrees : OpenDatabase(t)
  \/ /\ Idle
     /\ run = NoValue
     /\ \E comps \in Components, faults \in Faults : CallDirtreeMkdirs(comps, faults)
  \/ /\ Idle
     /\ run = NoValue
     /\ \E f \in {None} \cup {Some(fn.ea) : fn \in Functions},
           keep \in BOOLEAN, answer \in Answers, faults \in Faults :
          RunMain([func |-> f, keep |-> keep, answer |-> answer, faults |-> faults])

\* the plugin run on the function dirtree of a database as it was opened
SpecTag == Init /\ [][NextTag]_vars

(***************************************************************************)
(* C14: dirtree_mkdirs(dir, "/p1/.../pn") visits the prefixes "/p1",       *)
(* "/p1/p2", ..., in order of increasing depth, and calls mkdir only on a  *)
(* prefix that is not a directory yet.  When a mkdir returns an error it   *)
(* is the last call and its code is returned: no deeper prefix is created  *)
(* and the directories created before it remain.  Otherwise DTE_OK is      *)
(* returned and every prefix, the full path included, is a directory.      *)
(***************************************************************************)
C14_MkdirsPrefixesInOrder ==
  (run # NoValue /\ run.op = "dirtree_mkdirs") =>
    LET c == run.calls
        n == Len(run.comps)
        Depth(j) == Cardinality({i \in 1..j : c[i].fn = "isdir"})
        Created(j) == {c[i].path : i \in {k \in 1..(j - 1) :
                         c[k].fn = "mkdir" /\ c[k].result = DTE_OK}}
        failed == {j \in 1..Len(c) : c[j].fn = "mkdir" /\ c[j].result # DTE_OK}
    IN  /\ \A j \in 1..Len(c) :
             /\ c[j].fn \in {"isdir", "mkdir"}
             /\ Depth(j) \in 1..n
             /\ c[j].path = AbsPath(SubSeq(run.comps, 1, Depth(j)))
             /\ c[j].fn = "isdir" =>
                  /\ c[j].result = (dirtree_isdir(run.before, c[j].path)
                                      \/ c[j].path \in Created(j))
                  /\ (j < Len(c) /\ c[j + 1].fn = "mkdir") <=> ~c[j].result
             /\ c[j].fn = "mkdir" => j > 1 /\ c[j - 1].fn = "isdir"
        /\ failed # {} <=> run.ret # DTE_OK
        /\ \A j \in failed : j = Len(c) /\ run.ret = c[j].result
        /\ {tree[i] : i \in 1..Len(tree)} =
             {run.before[i] : i \in 1..Len(run.before)}
               \cup {D(q) : q \in Created(Len(c) + 1)}
        /\ run.ret = DTE_OK =>
             /\ Len(c) > 0 /\ Depth(Len(c)) = n
             /\ \A k \in 1..n : dirtree_isdir(tree, AbsPath(SubSeq(run.comps, 1, k)))

\* a mkdir failed before the deepest prefix was reached: the directory made
\* before it is there, and the call ended with the failed mkdir
C14_Witness ==
  /\ run # NoValue
  /\ run.op = "dirtree_mkdirs"
  /\ run.ret # DTE_OK
  /\ Len(run.calls) >= 4
  /\ run.calls[2].fn = "mkdir" /\ run.calls[2].result = DTE_OK
  /\ run.calls[Len(run.calls)].fn = "mkdir"
  /\ run.calls[Len(run.calls)].result = run.ret
  /\ dirtree_isdir(tree, run.calls[2].path)
  /\ ~dirtree_isdir(run.before, run.calls[2].path)
  /\ Len(run.calls) < 2 * Len(run.comps)

\* a complete creation: every prefix of a path of three components was made
C14_WitnessCreated ==
  /\ run # NoValue
  /\ run.op = "dirtree_mkdirs"
  /\ run.ret = DTE_OK
  /\ Len(run.comps) = 3
  /\ Len(run.calls) = 6
  /\ dirtree_isdir(tree, run.path)

(***************************************************************************)
(* C15: one run of main() issues at most one rename, and always from the   *)
(* current absolute path of the function at the cursor to                  *)
(* "/<tag>/<entry name>", the entry name unchanged.  Nothing is created    *)
(* and nothing renamed when there is no function at the cursor, when the   *)
(* function has no directory entry, or when the prompt returns an empty    *)
(* tag; nothing is renamed when the tag directory could not be created or  *)
(* when the destination is the current path.                               *)
(***************************************************************************)
C15_AtMostOneRenameOfTheFunction ==
  (run # NoValue /\ run.op = "main") =>
    LET c == run.calls
        ui == run.ui
        renames == {j \in 1..Len(c) : c[j].fn = "rename"}
        mkdirs == {j \in 1..Len(c) : c[j].fn = "mkdir"}
        entry == {i \in 1..Len(run.before) :
                    /\ ui.func # None
                    /\ ~run.before[i].isdir
                    /\ run.before[i].ea = ui.func[1]}
        no_tag == ~ui.keep /\ ui.answer \in {None, Some(<< >>)}
    IN  /\ Cardinality(renames) <= 1
        /\ \A j \in renames :
             /\ \E i \in entry : c[j].path = run.before[i].path
             /\ ~ui.keep
             /\ c[j].to = <<"/">> \o ui.answer[1] \o <<"/">> \o get_name(ui.func[1])
             /\ c[j].to # c[j].path
        /\ (ui.func = None \/ entry = {} \/ no_tag) =>
             /\ renames = {}
             /\ mkdirs = {}
             /\ tree = run.before
        /\ (\E j \in mkdirs : c[j].result # DTE_OK) => renames = {}

====
